---- MODULE Spec2Model ----
(***************************************************************************)
(* Model of app.py (Brand Social Tool): the Brand Link Finder batch        *)
(* (search_google, extract_link, fetch_links_for_brand and the loop over   *)
(* brand_names) and the Instagram Profile Analyzer flow                    *)
(* (scrape_instagram_apify, the posting-frequency aggregation and          *)
(* analyze_instagram_posts).                                               *)
(*                                                                         *)
(* Python strings whose content the code inspects (links, handles, dates)  *)
(* are sequences of one-character strings, so that `in`, strip, split and  *)
(* replace are computed character by character.                            *)
(***************************************************************************)
EXTENDS Integers, Sequences, FiniteSets, TLC

\* ---------------------------------------------------------------- bounds
MaxResults == 2     \* longest "items" list of one search response
MaxItems == 3       \* longest enumerated list of a scraping response

\* "resultsLimit": 20 of the scraping request payload
ResultsLimit == 20

\* ------------------------------------------------------- string helpers
EmptyStr == << >>

\* Python `kw in s` on strings
Contains(s, kw) ==
  \E k \in 0..(Len(s) - Len(kw)) : SubSeq(s, k + 1, k + Len(kw)) = kw

\* ------------------------------------------- Brand Link Finder: inputs
\* the batches of brand names submitted (brand_names is non-empty, line 144)
BrandLists == {<<"A">>, <<"A", "B">>, <<"B", "A">>}

RECURSIVE SeqsUpTo(_, _)
SeqsUpTo(S, n) ==
  IF n = 0 THEN {<< >>}
  ELSE LET shorter == SeqsUpTo(S, n - 1)
       IN shorter \cup {Append(s, x) : s \in {t \in shorter : Len(t) = n - 1}, x \in S}

\* the three literal keywords of fetch_links_for_brand
KwWebsite == <<".">>
KwInstagram == <<"i","n","s","t","a","g","r","a","m",".","c","o","m">>
KwLinkedIn ==
  <<"l","i","n","k","e","d","i","n",".","c","o","m","/","c","o","m","p","a","n","y">>

\* links a search result may carry
LinkInstaSub == <<"a",".","i","n","s","t","a","g","r","a","m",".","c","o","m","/","x">>
LinkBrand == <<"b","r","a","n","d",".","c","o","m">>
LinkLinkedIn ==
  <<"l","i","n","k","e","d","i","n",".","c","o","m","/","c","o","m","p","a","n","y","/","b">>

\* one record of the "items" list; a record may lack the "link" key
SearchItems ==
  {[keys |-> {"link"}, link |-> l] : l \in {LinkInstaSub, LinkBrand, LinkLinkedIn}}
    \cup {[keys |-> {}, link |-> EmptyStr]}

\* what the search endpoint may deliver for one request:
\*   transport : requests.get raises
\*   nonjson   : res.json() raises ValueError
\*   json_list : the body is JSON but not an object, .get raises
\*   quota     : an error object without an "items" key
\*   ok        : an object with an "items" list
SearchResponses ==
  {[kind |-> k, items |-> << >>] : k \in {"transport", "nonjson", "json_list", "quota"}}
    \cup {[kind |-> "ok", items |-> its] : its \in SeqsUpTo(SearchItems, MaxResults)}

\* --------------------------------------------------- Google Search Utilities
\* search_google: the value returned, or the exception raised
search_google(resp) ==
  IF resp.kind \in {"transport", "nonjson", "json_list"}
  THEN [raised |-> TRUE, items |-> << >>]
  ELSE [raised |-> FALSE,
        items |-> IF resp.kind = "ok" THEN resp.items ELSE << >>]

\* item.get("link", "")
ItemLink(item) == IF "link" \in item.keys THEN item.link ELSE EmptyStr

\* extract_link keeping the last containment match instead of the first
RECURSIVE extract_link_last(_, _)
extract_link_last(results, keyword) ==
  IF results = << >> THEN EmptyStr
  ELSE LET link == ItemLink(results[Len(results)])
       IN IF Contains(link, keyword) THEN link
          ELSE extract_link_last(SubSeq(results, 1, Len(results) - 1), keyword)

RECURSIVE extract_link(_, _)
extract_link(results, keyword) ==
  IF results = << >> THEN EmptyStr
  ELSE LET link == ItemLink(Head(results))
       IN IF Contains(link, keyword) THEN link
          ELSE extract_link(Tail(results), keyword)

\* the query strings f"{brand} official site" etc., as <<brand, suffix>>
QueryWebsite(brand) == <<brand, " official site">>
QueryInstagram(brand) == <<brand, " site:instagram.com">>
QueryLinkedIn(brand) == <<brand, " site:linkedin.com/company">>

\* the dict returned by fetch_links_for_brand
LinkRow(brand, w, ig, li) ==
  [BrandName |-> brand, Website |-> w, Instagram |-> ig, LinkedIn |-> li]

\* ------------------------------------------------ Instagram via Apify: inputs
\* a JSON value read with item.get: a string or null
Str(chars) == [t |-> "str", s |-> chars]
Null == [t |-> "null", s |-> << >>]

\* Python truthiness of such a value
Truthy(v) == v.t = "str" /\ v.s # << >>

Whitespace == {" "}

\* spellings of the handle "nike" typed into the text input
HandleNike == <<"n","i","k","e">>
ProfileUrl ==
  <<"h","t","t","p","s",":","/","/","w","w","w",".","i","n","s","t","a","g","r","a","m",
    ".","c","o","m","/">> \o HandleNike
HandleInputs ==
  { HandleNike,
    <<"@">> \o HandleNike,
    <<" ", "@">> \o HandleNike \o <<" ">>,
    ProfileUrl,
    ProfileUrl \o <<"/">>,
    <<" ">> \o ProfileUrl \o <<"/", " ">> }

\* date strings a scraped item may carry in "takenAtDate"
DateJan01 == <<"2","0","2","4","-","0","1","-","0","1">>
DateJan02 == <<"2","0","2","4","-","0","1","-","0","2">>
DateFeb30 == <<"2","0","2","4","-","0","2","-","3","0">>
DateText == <<"n","/","a">>
\* datetime.now().strftime("%Y-%m-%d") on the day of the run
Today == <<"2","0","2","4","-","0","1","-","0","3">>

\* one element of the list the scraping service returns
DictItem(keys, url, caption, date) ==
  [isdict |-> TRUE, keys |-> keys, url |-> url, caption |-> caption, takenAtDate |-> date]
AllKeys == {"url", "caption", "takenAtDate"}
ItemFull == DictItem(AllKeys, Str(<<"u1">>), Str(<<"c1">>), Str(DateJan01))
ApifyItems ==
  { ItemFull,
    DictItem(AllKeys, Str(<<"u2">>), Str(<< >>), Str(DateJan01)),
    DictItem(AllKeys, Str(<<"u3">>), Str(<<"c2">>), Str(DateJan02)),
    DictItem({"takenAtDate"}, Null, Null, Str(DateText)),
    DictItem({"url", "caption"}, Str(<<"u5">>), Null, Null),
    DictItem(AllKeys, Str(<<"u6">>), Str(<<"c3">>), Str(DateFeb30)),
    [isdict |-> FALSE, keys |-> {}, url |-> Null, caption |-> Null, takenAtDate |-> Null] }

Repeat(x, n) == [k \in 1..n |-> x]

\* what the scraping endpoint may deliver for the one request:
\*   transport  : requests.post raises
\*   http_error : raise_for_status raises
\*   nonjson    : response.json() raises ValueError
\*   json       : a JSON body: an object (with or without "error"), a list, or
\*                another value (string, number, null)
JsonBody(t, keys, items) == [t |-> t, keys |-> keys, items |-> items]
ApifyResponses ==
  {[kind |-> k, body |-> JsonBody("other", {}, << >>)] :
      k \in {"transport", "http_error", "nonjson", "json"}}
    \cup {[kind |-> "json", body |-> JsonBody("dict", ks, << >>)] :
            ks \in {{"error"}, {"message"}, {}}}
    \cup {[kind |-> "json", body |-> JsonBody("list", {}, its)] :
            its \in SeqsUpTo(ApifyItems, MaxItems)}
    \cup {[kind |-> "json", body |-> JsonBody("list", {}, Repeat(ItemFull, n))] :
            n \in {ResultsLimit, ResultsLimit + 1}}

\* ------------------------------------------------- scrape_instagram_apify
RECURSIVE LStrip(_)
LStrip(s) == IF s # << >> /\ Head(s) \in Whitespace THEN LStrip(Tail(s)) ELSE s

RECURSIVE RStrip(_)
RStrip(s) ==
  IF s # << >> /\ s[Len(s)] \in Whitespace THEN RStrip(SubSeq(s, 1, Len(s) - 1)) ELSE s

\* str.strip()
Strip(s) == RStrip(LStrip(s))

\* s.split("/")[-1]
SplitLast(s) ==
  LET cut == {k \in 1..Len(s) : s[k] = "/"}
  IN IF cut = {} THEN s
     ELSE SubSeq(s, (CHOOSE k \in cut : \A j \in cut : j <= k) + 1, Len(s))

\* s.replace("@", "")
RemoveAt(s) == SelectSeq(s, LAMBDA c : c # "@")

\* line 51
NormalizeHandle(username) == RemoveAt(SplitLast(Strip(username)))

\* lines 53-57
Payload(handle) ==
  [usernames |-> <<handle>>, resultsLimit |-> ResultsLimit, resultsType |-> "posts"]

\* lines 82-86: item.get(key, default)
ItemGet(item, key, value, default) == IF key \in item.keys THEN value ELSE default

PostOf(item) ==
  [PostURL |-> ItemGet(item, "url", item.url, Str(<< >>)),
   Caption |-> ItemGet(item, "caption", item.caption, Str(<< >>)),
   Date |-> ItemGet(item, "takenAtDate", item.takenAtDate, Str(Today))]

\* lines 79-87
RECURSIVE PostsOf(_)
PostsOf(items) ==
  IF items = << >> THEN << >>
  ELSE IF Head(items).isdict
       THEN <<PostOf(Head(items))>> \o PostsOf(Tail(items))
       ELSE PostsOf(Tail(items))

MsgFailed == "Failed to fetch posts from Apify"
MsgNonJson == "Apify returned non-JSON response."
MsgApifyError == "Apify Error"
MsgUnexpected == "Unexpected response from Apify"
MsgNoPosts == "No posts found or profile may be private."
MsgAnalyzing == "Error analyzing profile"

\* scrape_result without the inner try of lines 65-69: the ValueError of
\* response.json() reaches the outer handler
scrape_result_no_inner_try(resp) ==
  IF resp.kind \in {"transport", "http_error", "nonjson"}
  THEN [errors |-> <<MsgFailed>>, posts |-> << >>]
  ELSE IF resp.body.t = "dict" /\ "error" \in resp.body.keys
  THEN [errors |-> <<MsgApifyError>>, posts |-> << >>]
  ELSE IF resp.body.t # "list"
  THEN [errors |-> <<MsgUnexpected>>, posts |-> << >>]
  ELSE [errors |-> << >>, posts |-> PostsOf(resp.body.items)]

\* lines 62-91: the st.error reports and the list returned
scrape_result(resp) ==
  IF resp.kind \in {"transport", "http_error"}
  THEN [errors |-> <<MsgFailed>>, posts |-> << >>]
  ELSE IF resp.kind = "nonjson"
  THEN [errors |-> <<MsgNonJson>>, posts |-> << >>]
  ELSE IF resp.body.t = "dict" /\ "error" \in resp.body.keys
  THEN [errors |-> <<MsgApifyError>>, posts |-> << >>]
  ELSE IF resp.body.t # "list"
  THEN [errors |-> <<MsgUnexpected>>, posts |-> << >>]
  ELSE [errors |-> << >>, posts |-> PostsOf(resp.body.items)]

\* ------------------------------------------ posting-frequency aggregation
DigitVal ==
  ("0" :> 0) @@ ("1" :> 1) @@ ("2" :> 2) @@ ("3" :> 3) @@ ("4" :> 4) @@
  ("5" :> 5) @@ ("6" :> 6) @@ ("7" :> 7) @@ ("8" :> 8) @@ ("9" :> 9)

IsLeap(y) == (y % 4 = 0 /\ y % 100 # 0) \/ y % 400 = 0

DaysIn(y, m) ==
  IF m = 2 THEN (IF IsLeap(y) THEN 29 ELSE 28)
  ELSE IF m \in {4, 6, 9, 11} THEN 30 ELSE 31

NaT == [nat |-> TRUE, date |-> <<0, 0, 0>>]

\* pd.to_datetime(value, errors='coerce') on one cell, for the YYYY-MM-DD
\* strings, the free text and the nulls of the inputs above: a calendar date,
\* or NaT for whatever does not parse
to_datetime(v) ==
  IF v.t # "str" THEN NaT
  ELSE LET s == v.s IN
    IF /\ Len(s) = 10
       /\ s[5] = "-"
       /\ s[8] = "-"
       /\ \A k \in {1, 2, 3, 4, 6, 7, 9, 10} : s[k] \in DOMAIN DigitVal
    THEN LET y == 1000 * DigitVal[s[1]] + 100 * DigitVal[s[2]]
                    + 10 * DigitVal[s[3]] + DigitVal[s[4]]
             m == 10 * DigitVal[s[6]] + DigitVal[s[7]]
             d == 10 * DigitVal[s[9]] + DigitVal[s[10]]
         IN IF m \in 1..12 /\ d \in 1..DaysIn(y, m)
            THEN [nat |-> FALSE, date |-> <<y, m, d>>]
            ELSE NaT
    ELSE NaT

\* lines 165 and 172: the frame built from post_list, its Date column parsed
DataFrame(posts) ==
  [k \in 1..Len(posts) |->
     [PostURL |-> posts[k].PostURL, Caption |-> posts[k].Caption,
      Date |-> to_datetime(posts[k].Date)]]

RECURSIVE CountDates(_, _)
CountDates(rows, acc) ==
  IF rows = << >> THEN acc
  ELSE LET d == Head(rows).Date
       IN CountDates(Tail(rows),
            IF d.nat THEN acc
            ELSE IF d.date \in DOMAIN acc THEN [acc EXCEPT ![d.date] = @ + 1]
            ELSE acc @@ (d.date :> 1))

\* groupby(..., dropna=False): the NaT rows form a group of their own
groupby_size_keepna(rows) ==
  LET nat == {k \in 1..Len(rows) : rows[k].Date.nat}
      kept == CountDates(rows, [x \in {} |-> 0])
  IN IF nat = {} THEN kept ELSE kept @@ (NaT.date :> Cardinality(nat))

\* line 173: df_posts.groupby(df_posts['Date'].dt.date).size(); NaT keys are dropped
groupby_size(rows) == CountDates(rows, [x \in {} |-> 0])

\* ------------------------------------------------ analyze_instagram_posts
\* the list comprehension of line 94 without its `if p['Caption']` filter
RECURSIVE BulletList_unfiltered(_)
BulletList_unfiltered(post_list) ==
  IF post_list = << >> THEN << >>
  ELSE <<(<<"- ">> \o Head(post_list).Caption.s)>> \o BulletList_unfiltered(Tail(post_list))

\* line 94: [f"- {p['Caption']}" for p in post_list if p['Caption']]
RECURSIVE BulletList(_)
BulletList(post_list) ==
  IF post_list = << >> THEN << >>
  ELSE IF Truthy(Head(post_list).Caption)
       THEN <<(<<"- ">> \o Head(post_list).Caption.s)>> \o BulletList(Tail(post_list))
       ELSE BulletList(Tail(post_list))

\* "\n\n".join(lines)
RECURSIVE Join(_)
Join(lines) ==
  IF lines = << >> THEN << >>
  ELSE IF Len(lines) = 1 THEN Head(lines)
       ELSE Head(lines) \o <<"\n\n">> \o Join(Tail(lines))

\* lines 94-105: the prompt handed to model.generate_content
Prompt(post_list) ==
  [template |-> "social media strategist", captions |-> Join(BulletList(post_list))]

\* lines 93-107: the calls of model.generate_content one run of the function
\* issues, whatever the service then answers
analyze_instagram_posts(post_list) == <<Prompt(post_list)>>

\* the flow without the test of line 162
NoPosts_never(posts) == FALSE

\* line 162: `not post_list`
NoPosts(posts) == posts = << >>

\* ------------------------------------------------------------------ state
VARIABLES
  handle_input,    \* the text input of the analyzer page
  apify_requests,  \* payloads posted to the scraping endpoint, in order
  apify_resp,      \* what the scraping endpoint delivered
  post_list,       \* the list scrape_instagram_apify returned
  st_errors,       \* st.error reports, in order
  st_warnings,     \* st.warning reports, in order
  df_posts,        \* the frame of lines 165-172
  df_freq,         \* the posting-frequency series of line 173
  freq_runs,       \* how many times the aggregation ran
  analyze_runs,    \* how many times analyze_instagram_posts was called
  gemini_calls,    \* prompts sent to model.generate_content, in order
  insights         \* the text rendered at line 183

instaVars == <<handle_input, apify_requests, apify_resp, post_list, st_errors,
               st_warnings, df_posts, df_freq, freq_runs, analyze_runs, gemini_calls, insights>>

\* ------------------------------------------------ Brand Link Finder flow
VARIABLES
  pc,             \* position of the script run
  brand_names,    \* the batch input
  i,              \* index of the brand the list comprehension is at
  website,        \* local of fetch_links_for_brand
  instagram,      \* local of fetch_links_for_brand
  results,        \* rows accumulated by the list comprehension
  search_log,     \* queries sent to the search endpoint, in order
  last_search     \* the latest query's category, response and extracted link

batchVars == <<brand_names, i, website, instagram, results, search_log, last_search>>

NoSearch == [category |-> "none", resp |-> [kind |-> "quota", items |-> << >>], url |-> EmptyStr]

BatchInit ==
  /\ brand_names = << >>
  /\ i = 0
  /\ website = EmptyStr
  /\ instagram = EmptyStr
  /\ results = << >>
  /\ search_log = << >>
  /\ last_search = NoSearch

\* st.button("Fetch Social Links") and brand_names
FetchSocialLinksClick ==
  /\ pc = "idle"
  /\ \E names \in BrandLists : brand_names' = names
  /\ i' = 1
  /\ pc' = "q_website"
  /\ UNCHANGED <<website, instagram, results, search_log, last_search, instaVars>>

\* line 44: website = extract_link(search_google(...), ".")
SearchWebsite ==
  /\ pc = "q_website"
  /\ \E resp \in SearchResponses :
       LET r == search_google(resp)
           url == extract_link(r.items, KwWebsite)
       IN /\ search_log' = Append(search_log, QueryWebsite(brand_names[i]))
          /\ IF r.raised
             THEN /\ pc' = "batch_raised"
                  /\ last_search' = [category |-> "Website", resp |-> resp, url |-> EmptyStr]
                  /\ UNCHANGED website
             ELSE /\ pc' = "q_instagram"
                  /\ website' = url
                  /\ last_search' = [category |-> "Website", resp |-> resp, url |-> url]
  /\ UNCHANGED <<brand_names, i, instagram, results, instaVars>>

\* line 45: instagram = extract_link(search_google(...), "instagram.com")
SearchInstagram ==
  /\ pc = "q_instagram"
  /\ \E resp \in SearchResponses :
       LET r == search_google(resp)
           url == extract_link(r.items, KwInstagram)
       IN /\ search_log' = Append(search_log, QueryInstagram(brand_names[i]))
          /\ IF r.raised
             THEN /\ pc' = "batch_raised"
                  /\ last_search' = [category |-> "Instagram", resp |-> resp, url |-> EmptyStr]
                  /\ UNCHANGED instagram
             ELSE /\ pc' = "q_linkedin"
                  /\ instagram' = url
                  /\ last_search' = [category |-> "Instagram", resp |-> resp, url |-> url]
  /\ UNCHANGED <<brand_names, i, website, results, instaVars>>

\* lines 46-47 and the step of the list comprehension of line 146
SearchLinkedIn ==
  /\ pc = "q_linkedin"
  /\ \E resp \in SearchResponses :
       LET r == search_google(resp)
           url == extract_link(r.items, KwLinkedIn)
       IN /\ search_log' = Append(search_log, QueryLinkedIn(brand_names[i]))
          /\ IF r.raised
             THEN /\ pc' = "batch_raised"
                  /\ last_search' = [category |-> "LinkedIn", resp |-> resp, url |-> EmptyStr]
                  /\ UNCHANGED <<i, website, instagram, results>>
             ELSE /\ results' = Append(results, LinkRow(brand_names[i], website, instagram, url))
                  /\ last_search' = [category |-> "LinkedIn", resp |-> resp, url |-> url]
                  /\ website' = EmptyStr
                  /\ instagram' = EmptyStr
                  /\ i' = i + 1
                  /\ pc' = IF i = Len(brand_names) THEN "batch_done" ELSE "q_website"
  /\ UNCHANGED <<brand_names, instaVars>>

vars == <<pc, batchVars, instaVars>>

NoResp == [kind |-> "none", body |-> JsonBody("other", {}, << >>)]

InstaInit ==
  /\ handle_input = EmptyStr
  /\ apify_requests = << >>
  /\ apify_resp = NoResp
  /\ post_list = << >>
  /\ st_errors = << >>
  /\ st_warnings = << >>
  /\ df_posts = << >>
  /\ df_freq = [x \in {} |-> 0]
  /\ freq_runs = 0
  /\ analyze_runs = 0
  /\ gemini_calls = << >>
  /\ insights = "none"

Init == pc = "idle" /\ BatchInit /\ InstaInit

\* ------------------------------------------- Instagram Profile Analyzer flow
\* line 158: st.button("Analyze Instagram") and handle_input
AnalyzeInstagramClick ==
  /\ pc = "idle"
  /\ \E h \in HandleInputs : handle_input' = h
  /\ pc' = "scraping"
  /\ UNCHANGED <<batchVars, apify_requests, apify_resp, post_list, st_errors,
                 st_warnings, df_posts, df_freq, freq_runs, analyze_runs, gemini_calls, insights>>

\* lines 161-163: the call of scrape_instagram_apify and the test of its result
ScrapeInstagram ==
  /\ pc = "scraping"
  /\ apify_requests' = Append(apify_requests, Payload(NormalizeHandle(handle_input)))
  /\ \E resp \in ApifyResponses :
       LET r == scrape_result(resp)
       IN /\ apify_resp' = resp
          /\ post_list' = r.posts
          /\ st_errors' = st_errors \o r.errors
          /\ IF NoPosts(r.posts)
             THEN /\ st_warnings' = Append(st_warnings, MsgNoPosts)
                  /\ pc' = "done"
             ELSE /\ UNCHANGED st_warnings
                  /\ pc' = "frequency"
  /\ UNCHANGED <<batchVars, handle_input, df_posts, df_freq, freq_runs,
                 analyze_runs, gemini_calls, insights>>

\* lines 165-178: the frame, the frequency series and its chart; a call of the
\* table, chart or download collaborators that raises is caught at line 184
PostingFrequency ==
  /\ pc = "frequency"
  /\ df_posts' = DataFrame(post_list)
  /\ df_freq' = groupby_size(df_posts')
  /\ freq_runs' = freq_runs + 1
  /\ \/ /\ pc' = "analyzing"
        /\ UNCHANGED st_errors
     \/ /\ pc' = "done"
        /\ st_errors' = Append(st_errors, MsgAnalyzing)
  /\ UNCHANGED <<batchVars, handle_input, apify_requests, apify_resp, post_list,
                 st_warnings, analyze_runs, gemini_calls, insights>>

\* lines 180-185: the call of analyze_instagram_posts; model.generate_content
\* returns a text or raises, and the exception is caught at line 184
AnalyzeInstagramPosts ==
  /\ pc = "analyzing"
  /\ analyze_runs' = analyze_runs + 1
  /\ gemini_calls' = gemini_calls \o analyze_instagram_posts(post_list)
  /\ \/ /\ insights' = "text"
        /\ UNCHANGED st_errors
     \/ /\ st_errors' = Append(st_errors, MsgAnalyzing)
        /\ UNCHANGED insights
  /\ pc' = "done"
  /\ UNCHANGED <<batchVars, handle_input, apify_requests, apify_resp, post_list,
                 st_warnings, df_posts, df_freq, freq_runs>>

Next ==
  \/ FetchSocialLinksClick
  \/ SearchWebsite
  \/ SearchInstagram
  \/ SearchLinkedIn
  \/ AnalyzeInstagramClick
  \/ ScrapeInstagram
  \/ PostingFrequency
  \/ AnalyzeInstagramPosts

Spec == Init /\ [][Next]_vars
\* ================================================================ properties
BatchEnded == pc \in {"batch_done", "batch_raised"}
Scraped == apify_resp.kind # "none"

\* C1: a batch over any brands ends with one row per brand, in input order,
\* and with no exception escaping, also when a brand's queries fail; a failed
\* query leaves its field empty.
C1_OneRowPerBrand ==
  BatchEnded =>
    /\ pc = "batch_done"
    /\ Len(results) = Len(brand_names)
    /\ \A k \in 1..Len(brand_names) : results[k].BrandName = brand_names[k]
    /\ last_search.resp.kind # "ok" => results[Len(results)].LinkedIn = EmptyStr

\* the substring the claim gives for each category
KeywordOf(category) ==
  CASE category = "Website" -> <<".">>
    [] category = "Instagram" -> <<"i","n","s","t","a","g","r","a","m",".","c","o","m">>
    [] category = "LinkedIn" ->
         <<"l","i","n","k","e","d","i","n",".","c","o","m","/","c","o","m","p","a","n","y">>

\* url is the link of the first record of items whose link contains kw, or
\* empty when there is none
IsFirstMatch(url, items, kw) ==
  \/ /\ url = EmptyStr
     /\ \A k \in 1..Len(items) : ~Contains(ItemLink(items[k]), kw)
  \/ \E k \in 1..Len(items) :
       /\ ItemLink(items[k]) = url
       /\ Contains(url, kw)
       /\ \A j \in 1..(k - 1) : ~Contains(ItemLink(items[j]), kw)

\* where the link resolved by the latest query is held
ResolvedNow ==
  CASE last_search.category = "Website" -> website
    [] last_search.category = "Instagram" -> instagram
    [] last_search.category = "LinkedIn" -> results[Len(results)].LinkedIn

C2_LatestIsFirstMatch ==
  (last_search.category # "none" /\ pc # "batch_raised") =>
    IsFirstMatch(ResolvedNow,
                 IF last_search.resp.kind = "ok" THEN last_search.resp.items ELSE << >>,
                 KeywordOf(last_search.category))

\* the links resolved for Website and Instagram are the ones the row carries
C2_RowKeepsLinks ==
  /\ pc = "q_instagram" /\ pc' = "q_linkedin" => website' = website
  /\ (pc = "q_linkedin" /\ pc' # "batch_raised") =>
       /\ Len(results') = Len(results) + 1
       /\ results'[Len(results')].Website = website
       /\ results'[Len(results')].Instagram = instagram
       /\ results'[Len(results')].BrandName = brand_names[i]

\* C2: for every brand and category the resolved URL is the link of the first
\* record, in ranking order, of that category's own query result whose link
\* contains the category's substring, and the empty string when none does.
C2_FirstContainmentMatch == []C2_LatestIsFirstMatch /\ [][C2_RowKeepsLinks]_vars

\* C2 witness: results [a.instagram.com/x, brand.com] resolved Website to
\* a.instagram.com/x
C2_Witness ==
  /\ pc = "q_instagram"
  /\ last_search.category = "Website"
  /\ last_search.resp.kind = "ok"
  /\ last_search.resp.items =
       <<[keys |-> {"link"}, link |-> LinkInstaSub], [keys |-> {"link"}, link |-> LinkBrand]>>
  /\ website = LinkInstaSub

\* C3: scrape_instagram_apify never returns more than 20 posts, whatever the
\* scraping service sends back.
C3_AtMostTwentyPosts == Len(post_list) <= 20

\* the four failure classes of the claim
FailureClass(resp) ==
  IF resp.kind \in {"transport", "http_error"} THEN "transport"
  ELSE IF resp.kind = "nonjson" THEN "nonjson"
  ELSE IF resp.kind = "json" /\ resp.body.t = "dict" /\ "error" \in resp.body.keys
  THEN "structured"
  ELSE IF resp.kind = "json" /\ resp.body.t # "list" THEN "shape"
  ELSE "none"

ReportOf(class) ==
  CASE class = "transport" -> "Failed to fetch posts from Apify"
    [] class = "nonjson" -> "Apify returned non-JSON response."
    [] class = "structured" -> "Apify Error"
    [] class = "shape" -> "Unexpected response from Apify"

\* C4: each of the four failure classes of the hosted backend is reported by
\* its own report, distinct from the other three, and yields an empty post
\* list; nothing is raised past scrape_instagram_apify (the run goes on to the
\* "no posts" warning).
C4_DistinctFailureReports ==
  (Scraped /\ FailureClass(apify_resp) # "none") =>
    /\ post_list = << >>
    /\ st_errors = <<ReportOf(FailureClass(apify_resp))>>
    /\ \A c \in {"transport", "nonjson", "structured", "shape"} :
         c # FailureClass(apify_resp) => ReportOf(c) # st_errors[1]
    /\ pc = "done"
    /\ st_warnings = <<MsgNoPosts>>

\* C4 witness: {"error": ...} was reported as a structured error
C4_Witness ==
  /\ apify_resp.kind = "json"
  /\ apify_resp.body.t = "dict"
  /\ "error" \in apify_resp.body.keys
  /\ st_errors = <<"Apify Error">>
  /\ post_list = << >>

\* C5: when the ingestion returned no post the run reports the "no posts /
\* private" warning and ends with neither the aggregation nor the summarizer
\* run; the generative call happens only after an ingestion with posts.
C5_EmptyIngestionStops ==
  /\ (Scraped /\ post_list = << >>) =>
       /\ pc = "done"
       /\ st_warnings = <<MsgNoPosts>>
       /\ freq_runs = 0
       /\ analyze_runs = 0
       /\ gemini_calls = << >>
  /\ (freq_runs > 0 \/ analyze_runs > 0 \/ gemini_calls # << >>) =>
       (Scraped /\ post_list # << >> /\ st_warnings = << >>)

\* C5 witness: a list response without a single usable item ended the run
C5_Witness ==
  /\ pc = "done"
  /\ apify_resp.kind = "json"
  /\ apify_resp.body.t = "list"
  /\ post_list = << >>
  /\ st_warnings = <<MsgNoPosts>>

\* C6: for a non-empty post list the summarizer is invoked whatever the
\* outcome of the aggregation step, and both have run when the run ends.
C6_SummarizerIndependent ==
  (pc = "done" /\ Scraped /\ post_list # << >>) =>
    (freq_runs = 1 /\ analyze_runs = 1 /\ Len(gemini_calls) = 1)

RECURSIVE SumOver(_, _)
SumOver(f, S) ==
  IF S = {} THEN 0
  ELSE LET x == CHOOSE y \in S : TRUE IN f[x] + SumOver(f, S \ {x})

\* C7: the frequency mapping counts, for each calendar date, the posts of that
\* date; its counts sum to the number of posts minus the unparseable ones;
\* the post list itself is what the ingestion returned.
C7_FrequencyCounts ==
  freq_runs > 0 =>
    LET parsed == [k \in 1..Len(post_list) |-> to_datetime(post_list[k].Date)]
        good == {k \in 1..Len(post_list) : ~parsed[k].nat}
    IN /\ DOMAIN df_freq = {parsed[k].date : k \in good}
       /\ \A d \in DOMAIN df_freq :
            df_freq[d] = Cardinality({k \in good : parsed[k].date = d})
       /\ SumOver(df_freq, DOMAIN df_freq)
            = Len(post_list) - Cardinality((1..Len(post_list)) \ good)
       /\ post_list = PostsOf(apify_resp.body.items)
       /\ \A k \in 1..Len(post_list) : post_list[k].Date.t \in {"str", "null"}

\* C7 witness: dates [2024-01-01, 2024-01-01, 2024-01-02] gave
\* {2024-01-01: 2, 2024-01-02: 1}
C7_Witness ==
  /\ freq_runs = 1
  /\ Len(post_list) = 3
  /\ post_list[1].Date = Str(DateJan01)
  /\ post_list[2].Date = Str(DateJan01)
  /\ post_list[3].Date = Str(DateJan02)
  /\ df_freq = (<<2024, 1, 1>> :> 2) @@ (<<2024, 1, 2>> :> 1)

\* the caption section the claim describes: the non-empty captions, in input
\* order, one "- " entry each, separated by blank lines
RECURSIVE CaptionSection(_)
CaptionSection(kept) ==
  IF kept = << >> THEN << >>
  ELSE IF Len(kept) = 1 THEN <<"- ">> \o kept[1].Caption.s
  ELSE CaptionSection(SubSeq(kept, 1, Len(kept) - 1))
         \o <<"\n\n", "- ">> \o kept[Len(kept)].Caption.s

HasCaption(p) == p.Caption.t = "str" /\ Len(p.Caption.s) > 0

\* C8: every call of analyze issues exactly one generative request, whose
\* caption section lists exactly the non-empty captions in input order, also
\* when no post has a caption.
C8_PromptAndSingleCall ==
  /\ Len(gemini_calls) = analyze_runs
  /\ \A k \in 1..Len(gemini_calls) :
       gemini_calls[k].captions = CaptionSection(SelectSeq(post_list, HasCaption))

\* C8 witness: posts without any caption still caused one call, with an empty
\* caption section
C8_Witness ==
  /\ analyze_runs = 1
  /\ post_list # << >>
  /\ \A k \in 1..Len(post_list) : ~HasCaption(post_list[k])
  /\ Len(gemini_calls) = 1
  /\ gemini_calls[1].captions = << >>

RECURSIVE ThreeQueriesEach(_)
ThreeQueriesEach(names) ==
  IF names = << >> THEN << >>
  ELSE <<QueryWebsite(Head(names)), QueryInstagram(Head(names)), QueryLinkedIn(Head(names))>>
         \o ThreeQueriesEach(Tail(names))

\* C9: every external call is made exactly once per step: each brand whose
\* resolution was begun got exactly its three queries, in order and brand by
\* brand; a handle run made one scraping request and at most one generative
\* request.
C9_ExactlyOncePerStep ==
  /\ BatchEnded =>
       search_log = ThreeQueriesEach(SubSeq(brand_names, 1,
                      IF pc = "batch_done" THEN Len(brand_names) ELSE i))
  /\ Scraped => (Len(apify_requests) = 1 /\ Len(gemini_calls) <= 1)

\* C10: every accepted spelling of the handle is submitted to the scraping
\* service as the same non-empty bare username.
C10_SameBareUsername ==
  apify_requests # << >> =>
    (Len(apify_requests) = 1 /\ apify_requests[1].usernames = <<HandleNike>>)
====
